---- MODULE Spec2Model ----
(***************************************************************************)
(* GNATFinder: second-order causal activity graph.                         *)
(*                                                                         *)
(* The model covers quadtree.c (spikes, spike pairs, bounding boxes, the   *)
(* point quadtree), the raster and network ingestion, the causal kernel    *)
(* (compute_gamma, GNAT_test_for_edge), the edge buffer and the            *)
(* orchestrator (main, insert_spike_pairs, compute_gnat_edges).            *)
(*                                                                         *)
(* Numbers.  Timestamps are C longs: integers.  Every C float of the       *)
(* program (box centres and half-widths, tau, thresh, c_radius, delay,     *)
(* gamma) is held as an integer count of 1/FS, FS a power of two, so that  *)
(* the halvings of QTreeSubdivide and the half-integer top-level box are   *)
(* exact, as they are in binary floating point for the magnitudes used.    *)
(***************************************************************************)
EXTENDS Integers, Sequences, FiniteSets, TLC

\* quadtree.h:32
QT_MAX_CAP == 4
\* the first unnamed source part, line 37 (gnats.c)
LARGE_GAMMA == 999999

\* Number of exact halvings of a half-integer the fixed-point scale allows.
MaxDepth == 3
\* Scale of the fixed-point representation of C floats.
FS == 2 ^ (MaxDepth + 1)

\* (float) i for a long i
ToFloat(i) == i * FS
\* conversion of a float to int: truncation toward zero (C 6.3.1.4)
ToInt(f) == IF f < 0 THEN -((-f) \div FS) ELSE f \div FS
\* A float halving is exact in the model when the operand is even.
Halvable(f) == f % 2 = 0

NULL == [null |-> TRUE]

(***************************************************************************)
(* quadtree.c: spikes and spike pairs                                      *)
(***************************************************************************)
create_spike(neuron_id, timestamp) == [n_id |-> neuron_id, ts |-> timestamp]

spike_equals(sp1, sp2) ==
    LET p1 == sp1.n_id = sp2.n_id
        p2 == sp1.ts = sp2.ts
    IN  p1 /\ p2

create_spike_pair(_sp1, _sp2) == [sp1 |-> _sp1, sp2 |-> _sp2]

(***************************************************************************)
(* quadtree.c: bounding boxes.  quadtree.c includes <stdlib.h> only, so    *)
(* abs is int abs(int): its float argument is converted to int first.      *)
(***************************************************************************)
BBoxCreate(center_x, center_y, half_width) ==
    [c_x |-> center_x, c_y |-> center_y, w2 |-> half_width]

abs(f) == LET i == ToInt(f) IN ToFloat(IF i < 0 THEN -i ELSE i)

BBoxContainsPoint(bb, spp) ==
    LET s1 == abs(ToFloat(spp.sp1.ts) - bb.c_x) < bb.w2
        s2 == abs(ToFloat(spp.sp2.ts) - bb.c_y) < bb.w2
    IN  s1 /\ s2

BBoxIntersects(bb1, bb2) ==
    LET d  == bb1.w2 + bb2.w2
        b1 == abs(bb2.c_x - bb1.c_x) <= d
        b2 == abs(bb2.c_y - bb1.c_y) <= d
    IN  b1 /\ b2

(***************************************************************************)
(* quadtree.c: the quadtree.  A node is a record; the pair list of a node  *)
(* (the next-linked list headed by qt->pairs) is a sequence, head first.   *)
(* QTreeInsert and QTreeSubdivide change the tree in place and so return   *)
(* the changed node: QTreeInsert returns [ret, qt, over], ret the C return *)
(* value, over = TRUE when a subdivision was needed whose half-width the   *)
(* fixed-point scale cannot halve (outside the model's bound).             *)
(***************************************************************************)
QTreeCreate(bbox) ==
    [capacity |-> 0, bdry |-> bbox, pairs |-> <<>>,
     NW |-> NULL, SW |-> NULL, NE |-> NULL, SE |-> NULL]

RECURSIVE QTreeInsert(_, _)
RECURSIVE SubdivideDrain(_)

\* The four calls QTreeInsert(qt->NW, spp), (qt->SW, ...), (qt->NE, ...),
\* (qt->SE, ...) of quadtree.c:245-248 and 288-302, each made only when the
\* one before returned FALSE; r is the result of the call just made.  The
\* child keeps what a failed call did to it.  After the fourth failure the
\* result is the "shouldn't reach here" FALSE of line 305.
OfferSE(qt, spp, r) ==
    [ret |-> r.ret, over |-> r.over, qt |-> [qt EXCEPT !.SE = r.qt]]

OfferNE(qt, spp, r) ==
    IF r.ret \/ r.over
    THEN [ret |-> r.ret, over |-> r.over, qt |-> [qt EXCEPT !.NE = r.qt]]
    ELSE OfferSE([qt EXCEPT !.NE = r.qt], spp, QTreeInsert(qt.SE, spp))

OfferSW(qt, spp, r) ==
    IF r.ret \/ r.over
    THEN [ret |-> r.ret, over |-> r.over, qt |-> [qt EXCEPT !.SW = r.qt]]
    ELSE OfferNE([qt EXCEPT !.SW = r.qt], spp, QTreeInsert(qt.NE, spp))

OfferNW(qt, spp, r) ==
    IF r.ret \/ r.over
    THEN [ret |-> r.ret, over |-> r.over, qt |-> [qt EXCEPT !.NW = r.qt]]
    ELSE OfferSW([qt EXCEPT !.NW = r.qt], spp, QTreeInsert(qt.SW, spp))

InsertChildren(qt, spp) == OfferNW(qt, spp, QTreeInsert(qt.NW, spp))

\* quadtree.c:232-250, the loop of QTreeSubdivide: pop the head of the pair
\* list and offer it to the children; a pair no child accepts is dropped.
SubdivideDrain(qt) ==
    IF ~(qt.capacity > 0) THEN qt
    ELSE SubdivideDrain(
           InsertChildren([qt EXCEPT !.pairs = Tail(@), !.capacity = @ - 1],
                          Head(qt.pairs)).qt)

\* QTreeSubdivide without the loop of lines 232-250: the children are made
\* and the pairs stay on the list of the node.
QTreeSubdivideKeeping(qt) ==
    LET d2   == qt.bdry.w2 \div 2
    IN  [qt EXCEPT
           !.NW = QTreeCreate(BBoxCreate(qt.bdry.c_x - d2, qt.bdry.c_y + d2, d2)),
           !.SW = QTreeCreate(BBoxCreate(qt.bdry.c_x - d2, qt.bdry.c_y - d2, d2)),
           !.NE = QTreeCreate(BBoxCreate(qt.bdry.c_x + d2, qt.bdry.c_y + d2, d2)),
           !.SE = QTreeCreate(BBoxCreate(qt.bdry.c_x + d2, qt.bdry.c_y - d2, d2))]

QTreeSubdivide(qt) ==
    LET d2   == qt.bdry.w2 \div 2
        bbNW == BBoxCreate(qt.bdry.c_x - d2, qt.bdry.c_y + d2, d2)
        bbSW == BBoxCreate(qt.bdry.c_x - d2, qt.bdry.c_y - d2, d2)
        bbNE == BBoxCreate(qt.bdry.c_x + d2, qt.bdry.c_y + d2, d2)
        bbSE == BBoxCreate(qt.bdry.c_x + d2, qt.bdry.c_y - d2, d2)
    IN  SubdivideDrain([qt EXCEPT !.NW = QTreeCreate(bbNW),
                                  !.SW = QTreeCreate(bbSW),
                                  !.NE = QTreeCreate(bbNE),
                                  !.SE = QTreeCreate(bbSE)])

\* QTreeInsert with the capacity test of line 262 off by one: a leaf that
\* already holds QT_MAX_CAP pairs takes one more.
QTreeInsertOverfull(qt, spp) ==
    IF ~BBoxContainsPoint(qt.bdry, spp)
    THEN [ret |-> FALSE, qt |-> qt, over |-> FALSE]
    ELSE IF (qt.capacity <= QT_MAX_CAP) /\ (qt.NW = NULL)
    THEN [ret |-> TRUE, over |-> FALSE,
          qt |-> [qt EXCEPT !.pairs = Append(@, spp), !.capacity = @ + 1]]
    ELSE IF (qt.NW = NULL) /\ ~Halvable(qt.bdry.w2)
    THEN [ret |-> FALSE, qt |-> qt, over |-> TRUE]
    ELSE InsertChildren(IF qt.NW = NULL THEN QTreeSubdivide(qt) ELSE qt, spp)

QTreeInsert(qt, spp) ==
    IF ~BBoxContainsPoint(qt.bdry, spp)
    THEN [ret |-> FALSE, qt |-> qt, over |-> FALSE]
    ELSE IF (qt.capacity < QT_MAX_CAP) /\ (qt.NW = NULL)
    THEN [ret |-> TRUE, over |-> FALSE,
          qt |-> [qt EXCEPT !.pairs = Append(@, spp), !.capacity = @ + 1]]
    ELSE IF (qt.NW = NULL) /\ ~Halvable(qt.bdry.w2)
    THEN [ret |-> FALSE, qt |-> qt, over |-> TRUE]
    ELSE InsertChildren(IF qt.NW = NULL THEN QTreeSubdivide(qt) ELSE qt, spp)

\* The pairs QTreeMapQueryRange hands to func, in call order.
RECURSIVE QTreeMapQueryRange(_, _)
QTreeMapQueryRange(qt, r) ==
    IF ~BBoxIntersects(qt.bdry, r) THEN <<>>
    ELSE IF qt.NW = NULL THEN qt.pairs
    ELSE qt.pairs \o QTreeMapQueryRange(qt.NW, r) \o QTreeMapQueryRange(qt.SW, r)
                  \o QTreeMapQueryRange(qt.NE, r) \o QTreeMapQueryRange(qt.SE, r)

(***************************************************************************)
(* raster.c.  A spike list (the next-linked list headed by sp_lists[i]) is *)
(* a sequence, head first.  RasterInit mallocs sp_lists and never writes   *)
(* it, so the slot a list grows from holds an indeterminate pointer:       *)
(* sp_wild[i] = TRUE when that pointer is not NULL, and the list then ends *)
(* in it instead of in NULL.                                               *)
(***************************************************************************)
RasterInit(_n_cells, heap) ==
    [n_cells |-> _n_cells,
     sp_lists |-> [i \in 0 .. _n_cells - 1 |-> <<>>],
     sp_wild |-> heap,
     t_min |-> 0, t_max |-> 0, n_spikes |-> 0]

\* RasterHeadAppend without the first-spike branch of lines 73-75: t_min and
\* t_max are always moved from their current values.
RasterHeadAppendNoFirst(sr, sp) ==
    IF sp.n_id >= sr.n_cells THEN [exit |-> TRUE, sr |-> sr]
    ELSE
      LET min_diff == sp.ts - sr.t_min
          max_diff == sp.ts - sr.t_max
      IN  [exit |-> FALSE,
           sr |-> [sr EXCEPT
                     !.sp_lists[sp.n_id] = <<sp>> \o @,
                     !.t_min = @ + (IF min_diff > 0 THEN 0 ELSE min_diff),
                     !.t_max = @ + (IF max_diff < 0 THEN 0 ELSE max_diff),
                     !.n_spikes = @ + 1]]

\* [exit, sr]: exit = TRUE is the exit(-1) of line 65.
RasterHeadAppend(sr, sp) ==
    IF sp.n_id >= sr.n_cells THEN [exit |-> TRUE, sr |-> sr]
    ELSE
      LET min_diff == sp.ts - sr.t_min
          max_diff == sp.ts - sr.t_max
      IN  [exit |-> FALSE,
           sr |-> [sr EXCEPT
                     !.sp_lists[sp.n_id] = <<sp>> \o @,
                     !.t_min = IF sr.n_spikes = 0 THEN sp.ts
                               ELSE @ + (IF min_diff > 0 THEN 0 ELSE min_diff),
                     !.t_max = IF sr.n_spikes = 0 THEN sp.ts
                               ELSE @ + (IF max_diff < 0 THEN 0 ELSE max_diff),
                     !.n_spikes = @ + 1]]

RECURSIVE SpikeListReverse(_)
SpikeListReverse(list_head) ==
    IF list_head = <<>> THEN <<>>
    ELSE Append(SpikeListReverse(Tail(list_head)), Head(list_head))

\* [crash, sr]: SpikeListReverse follows next until NULL, so it dereferences
\* the indeterminate pointer a list ends in.
\* RasterReverse leaving every list as RasterHeadAppend built it
RasterReverseSkipped(sr) ==
    [crash |-> \E idx \in 0 .. sr.n_cells - 1 : sr.sp_wild[idx], sr |-> sr]

RasterReverse(sr) ==
    IF \E idx \in 0 .. sr.n_cells - 1 : sr.sp_wild[idx]
    THEN [crash |-> TRUE, sr |-> sr]
    ELSE [crash |-> FALSE,
          sr |-> [sr EXCEPT !.sp_lists =
                     [idx \in 0 .. sr.n_cells - 1 |-> SpikeListReverse(sr.sp_lists[idx])]]]

\* The loop of RasterReadFile over the lines <<timestamp, neuron id>> of the
\* file (parsed), then RasterReverse.  [exit, crash, sr].
RECURSIVE RasterReadLines(_, _)
RasterReadNext(r, lines) == IF r.exit THEN r ELSE RasterReadLines(r.sr, lines)

RasterReadLines(sr, lines) ==
    IF lines = <<>> THEN [exit |-> FALSE, sr |-> sr]
    ELSE RasterReadNext(
           RasterHeadAppend(sr, create_spike(Head(lines)[2], Head(lines)[1])),
           Tail(lines))

RasterReadEnd(r) ==
    IF r.exit THEN [exit |-> TRUE, crash |-> FALSE, sr |-> r.sr]
    ELSE [exit |-> FALSE] @@ RasterReverse(r.sr)

RasterReadFile(sr, lines) == RasterReadEnd(RasterReadLines(sr, lines))

(***************************************************************************)
(* network.c.  presyns[i] is a sequence, head first; PhysNetworkInit       *)
(* mallocs presyns and never writes it: wild[i] as sp_wild above.          *)
(***************************************************************************)
PhysNetworkInit(_n_cells, heap) ==
    [n_cells |-> _n_cells,
     presyns |-> [i \in 0 .. _n_cells - 1 |-> <<>>],
     wild |-> heap]

\* -1*log(_rel_w) of SynapseCreate, on the weights the model uses.
NegLog(_rel_w) == CASE _rel_w = ToFloat(1) -> 0

SynapseCreate(_src, _tgt, _rel_w, delay) ==
    [src_id |-> _src, tgt_id |-> _tgt, rel_w |-> _rel_w, delay |-> delay,
     neg_log_rel_w |-> NegLog(_rel_w)]

\* [exit, pn]
PhysNetworkAddSynapse(pn, edg) ==
    IF edg.tgt_id >= pn.n_cells THEN [exit |-> TRUE, pn |-> pn]
    ELSE IF pn.presyns[edg.tgt_id] = <<>> /\ ~pn.wild[edg.tgt_id]
    THEN [exit |-> FALSE, pn |-> [pn EXCEPT !.presyns[edg.tgt_id] = <<edg>>]]
    ELSE [exit |-> FALSE, pn |-> [pn EXCEPT !.presyns[edg.tgt_id] = <<edg>> \o @]]

\* lines are <<src_id, tgt_id, rel_w, delay>>
RECURSIVE PhysNetworkReadFile(_, _)
PhysNetworkReadNext(r, lines) ==
    IF r.exit THEN r ELSE PhysNetworkReadFile(r.pn, lines)

PhysNetworkReadFile(pn, lines) ==
    IF lines = <<>> THEN [exit |-> FALSE, pn |-> pn]
    ELSE PhysNetworkReadNext(
           PhysNetworkAddSynapse(pn, SynapseCreate(Head(lines)[1], Head(lines)[2],
                                                   Head(lines)[3], Head(lines)[4])),
           Tail(lines))

(***************************************************************************)
(* gnats.c: the causal kernel                                              *)
(***************************************************************************)
\* a / b on floats; the model's inputs keep the quotient exact
FDiv(a, b) == (a * FS) \div b

compute_gamma(sp_pre, sp_post, edg, tau) ==
    LET delta_t == ToFloat(sp_post.ts - sp_pre.ts)
        theta   == IF delta_t >= edg.delay THEN 0 ELSE 1
    IN  (theta * ToFloat(LARGE_GAMMA))
          + (edg.neg_log_rel_w + FDiv(delta_t - edg.delay, tau))

\* GNAT_test_for_edge without its second alignment: the test a kernel would
\* make if it compared only sp1 with sp1.
GNAT_test_first_only(spp_pre, spp_post, edg, tau, thresh) ==
    LET gamma_1 == compute_gamma(spp_pre.sp1, spp_post.sp1, edg, tau)
    IN  gamma_1 <= thresh

GNAT_test_for_edge(spp_pre, spp_post, edg, tau, thresh) ==
    LET gamma_1 == compute_gamma(spp_pre.sp1, spp_post.sp1, edg, tau)
        gamma_2 == compute_gamma(spp_pre.sp2, spp_post.sp2, edg, tau)
    IN  (gamma_1 <= thresh) /\ (gamma_2 <= thresh)

\* QTreeMapGNATEdge walking the children in the order NW, NE, SW, SE
RECURSIVE QTreeMapGNATEdgeSwapped(_, _, _, _, _, _)
QTreeMapGNATEdgeSwapped(qt, r, spp_post, syn, tau, theta) ==
    IF ~BBoxIntersects(qt.bdry, r) THEN <<>>
    ELSE
      LET here == SelectSeq(qt.pairs,
                    LAMBDA spp_pre : GNAT_test_for_edge(spp_pre, spp_post, syn, tau, theta))
      IN  IF qt.NW = NULL THEN here
          ELSE here \o QTreeMapGNATEdgeSwapped(qt.NW, r, spp_post, syn, tau, theta)
                    \o QTreeMapGNATEdgeSwapped(qt.NE, r, spp_post, syn, tau, theta)
                    \o QTreeMapGNATEdgeSwapped(qt.SW, r, spp_post, syn, tau, theta)
                    \o QTreeMapGNATEdgeSwapped(qt.SE, r, spp_post, syn, tau, theta)

\* The pre-pairs QTreeMapGNATEdge hands to GNAT_add_edge, in call order.
RECURSIVE QTreeMapGNATEdge(_, _, _, _, _, _)
QTreeMapGNATEdge(qt, r, spp_post, syn, tau, theta) ==
    IF ~BBoxIntersects(qt.bdry, r) THEN <<>>
    ELSE
      LET here == SelectSeq(qt.pairs,
                    LAMBDA spp_pre : GNAT_test_for_edge(spp_pre, spp_post, syn, tau, theta))
      IN  IF qt.NW = NULL THEN here
          ELSE here \o QTreeMapGNATEdge(qt.NW, r, spp_post, syn, tau, theta)
                    \o QTreeMapGNATEdge(qt.SW, r, spp_post, syn, tau, theta)
                    \o QTreeMapGNATEdge(qt.NE, r, spp_post, syn, tau, theta)
                    \o QTreeMapGNATEdge(qt.SE, r, spp_post, syn, tau, theta)

(***************************************************************************)
(* gnats.c: the edge buffer.  eb = [g_edgbuf, edgbuf_sz, fp_edgbuf, file]: *)
(* g_edgbuf holds the entries below edgbuf_sz, file the lines written.     *)
(***************************************************************************)
fprint_GNAT_edge(edg) ==
    LET n_id_1 == edg.spp_pre.sp1.n_id
        n_id_2 == edg.spp_post.sp1.n_id
        t_11   == edg.spp_pre.sp1.ts
        t_12   == edg.spp_pre.sp2.ts
        t_21   == edg.spp_post.sp1.ts
        t_22   == edg.spp_post.sp2.ts
    IN  ToString(n_id_1) \o " " \o ToString(t_11) \o " " \o ToString(t_12) \o " "
          \o ToString(n_id_2) \o " " \o ToString(t_21) \o " " \o ToString(t_22)

initialize_edge_buffer ==
    [g_edgbuf |-> <<>>, edgbuf_sz |-> 0, fp_edgbuf |-> "open", file |-> <<>>]

\* flush_edge_buffer writing the buffered edges last first
flush_edge_buffer_backwards(eb) ==
    IF eb.edgbuf_sz = 0 THEN eb
    ELSE [eb EXCEPT
            !.file = @ \o [idx \in 1 .. eb.edgbuf_sz |->
                             fprint_GNAT_edge(eb.g_edgbuf[eb.edgbuf_sz + 1 - idx])],
            !.edgbuf_sz = 0]

flush_edge_buffer(eb) ==
    IF eb.edgbuf_sz = 0 THEN eb
    ELSE [eb EXCEPT
            !.file = @ \o [idx \in 1 .. eb.edgbuf_sz |-> fprint_GNAT_edge(eb.g_edgbuf[idx])],
            !.edgbuf_sz = 0]

finalize_edge_buffer(eb) == [flush_edge_buffer(eb) EXCEPT !.fp_edgbuf = "closed"]

\* the edge buffer size of gnats.h
N_EDGBUF == 8192

\* GNAT_add_edge with the test of line 122 as edgbuf_sz > N_EDGBUF: the
\* flush comes one edge late.
GNAT_add_edge_late(eb, _spp_pre, _spp_post, _cd_ratio) ==
    LET e0 == IF eb.edgbuf_sz > N_EDGBUF
              THEN [flush_edge_buffer(eb) EXCEPT !.edgbuf_sz = 0] ELSE eb
    IN  [e0 EXCEPT
           !.g_edgbuf = SubSeq(e0.g_edgbuf, 1, e0.edgbuf_sz)
                          \o <<[spp_pre |-> _spp_pre, spp_post |-> _spp_post,
                                cd_ratio |-> _cd_ratio]>>,
           !.edgbuf_sz = @ + 1]

GNAT_add_edge(eb, _spp_pre, _spp_post, _cd_ratio) ==
    LET e0 == IF eb.edgbuf_sz >= N_EDGBUF
              THEN [flush_edge_buffer(eb) EXCEPT !.edgbuf_sz = 0] ELSE eb
    IN  [e0 EXCEPT
           !.g_edgbuf = SubSeq(e0.g_edgbuf, 1, e0.edgbuf_sz)
                          \o <<[spp_pre |-> _spp_pre, spp_post |-> _spp_post,
                                cd_ratio |-> _cd_ratio]>>,
           !.edgbuf_sz = @ + 1]

(***************************************************************************)
(* gnatfinder.c: the orchestrator                                          *)
(***************************************************************************)
\* The pairs create_spike_pair builds in the nested walk of a spike list
\* (sp_a from the head, sp_b from sp_a->next, spike_equals pairs skipped),
\* in the order the walk builds them.
\* The nested walk without the spike_equals test: every sp_a with every
\* later sp_b.
RECURSIVE SpikePairsUnfiltered(_)
SpikePairsUnfiltered(list_head) ==
    IF list_head = <<>> THEN <<>>
    ELSE [k \in 1 .. Len(list_head) - 1 |->
             create_spike_pair(Head(list_head), list_head[k + 1])]
           \o SpikePairsUnfiltered(Tail(list_head))

RECURSIVE SpikePairsOf(_)
SpikePairsOf(list_head) ==
    IF list_head = <<>> THEN <<>>
    ELSE
      LET sp_a == Head(list_head)
          rest == Tail(list_head)
          row  == [k \in 1 .. Len(rest) |-> create_spike_pair(sp_a, rest[k])]
      IN  SelectSeq(row, LAMBDA spp : ~spike_equals(spp.sp1, spp.sp2))
            \o SpikePairsOf(rest)

\* QTreeInsert of each pair in turn, the return value ignored.  [qt, over]
RECURSIVE InsertAll(_, _)
InsertNext(r, spps) ==
    IF r.over THEN [qt |-> r.qt, over |-> TRUE] ELSE InsertAll(r.qt, spps)

InsertAll(qt, spps) ==
    IF spps = <<>> THEN [qt |-> qt, over |-> FALSE]
    ELSE InsertNext(QTreeInsert(qt, Head(spps)), Tail(spps))

insert_spike_pairs(qt, list_head) == InsertAll(qt, SpikePairsOf(list_head))

\* main, lines 374-378
TopLevelBox(sr) ==
    LET _cx == ToFloat(sr.t_max + sr.t_min) \div 2
        _cy == _cx
        _hw == ToFloat(sr.t_max - sr.t_min) \div 2
    IN  BBoxCreate(_cx, _cy, _hw)

\* main, lines 380-390: [idx |-> [qt, over]]
BuildQuadtrees(sr) ==
    [idx \in 0 .. sr.n_cells - 1 |->
        insert_spike_pairs(QTreeCreate(TopLevelBox(sr)), sr.sp_lists[idx])]

\* The edges of a walk followed by the edges of the walk after it, which is
\* made only when the first did not crash.
WalkThen(one, more) ==
    IF one.crash THEN one
    ELSE [edges |-> one.edges \o more.edges, crash |-> more.crash]

\* EdgesOf with the two pairs of each edge exchanged
EdgesOfReversed(pres, spp_post) ==
    [edges |-> [k \in 1 .. Len(pres) |->
                  [spp_pre |-> spp_post, spp_post |-> pres[k], cd_ratio |-> 1]],
     crash |-> FALSE]

EdgesOf(pres, spp_post) ==
    [edges |-> [k \in 1 .. Len(pres) |->
                  [spp_pre |-> pres[k], spp_post |-> spp_post, cd_ratio |-> 1]],
     crash |-> FALSE]

\* The while (presyn) loop of compute_gnat_edges for one post pair: the
\* edges added, and crash = TRUE when the walk dereferences an indeterminate
\* pointer (the end of a list grown from an unwritten presyns slot) or reads
\* g_qtarray beyond its end.  [edges, crash]
RECURSIVE WalkPresyns(_, _, _, _, _, _, _, _)
WalkPresyns(presyn, wild, qtarray, n_cells, spp_post, tau, thresh, c_radius) ==
    IF presyn = <<>> THEN [edges |-> <<>>, crash |-> wild]
    ELSE IF Head(presyn).src_id >= n_cells THEN [edges |-> <<>>, crash |-> TRUE]
    ELSE WalkThen(
           EdgesOf(QTreeMapGNATEdge(qtarray[Head(presyn).src_id],
                                    BBoxCreate(ToFloat(spp_post.sp1.ts),
                                               ToFloat(spp_post.sp2.ts), c_radius),
                                    spp_post, Head(presyn), tau, thresh),
                   spp_post),
           WalkPresyns(Tail(presyn), wild, qtarray, n_cells, spp_post,
                       tau, thresh, c_radius))

\* The post pairs of one cell in turn.
RECURSIVE WalkPosts(_, _, _, _, _, _, _)
WalkPosts(posts, tgt_id, pn, qtarray, tau, thresh, c_radius) ==
    IF posts = <<>> THEN [edges |-> <<>>, crash |-> FALSE]
    ELSE WalkThen(
           WalkPresyns(pn.presyns[tgt_id], pn.wild[tgt_id], qtarray, pn.n_cells,
                       Head(posts), tau, thresh, c_radius),
           WalkPosts(Tail(posts), tgt_id, pn, qtarray, tau, thresh, c_radius))

\* The for (post_idx) loop of compute_gnat_edges from post_idx on.
RECURSIVE WalkCells(_, _, _, _, _, _, _)
WalkCells(post_idx, sr, pn, qtarray, tau, thresh, c_radius) ==
    IF ~(post_idx < pn.n_cells) THEN [edges |-> <<>>, crash |-> FALSE]
    ELSE WalkThen(
           WalkPosts(SpikePairsOf(sr.sp_lists[post_idx]), post_idx, pn,
                     qtarray, tau, thresh, c_radius),
           WalkCells(post_idx + 1, sr, pn, qtarray, tau, thresh, c_radius))

\* GNAT_add_edge for each edge in turn
RECURSIVE AddEdges(_, _)
AddEdges(eb, edges) ==
    IF edges = <<>> THEN eb
    ELSE AddEdges(GNAT_add_edge(eb, Head(edges).spp_pre, Head(edges).spp_post,
                                Head(edges).cd_ratio), Tail(edges))

\* [eb, crash]
ComputeEnd(eb, w) == [eb |-> AddEdges(eb, w.edges), crash |-> w.crash]

compute_gnat_edges(sr, pn, qtarray, eb, tau, thresh, c_radius) ==
    ComputeEnd(eb, WalkCells(0, sr, pn, qtarray, tau, thresh, c_radius))

(***************************************************************************)
(* The run of main as a state machine.                                     *)
(***************************************************************************)
VARIABLES
    pc,          \* where main is
    argv,        \* the inputs the run has consumed so far
    g_raster, g_network, g_qtarray,
    edgbuf,      \* g_edgbuf, edgbuf_sz, fp_edgbuf and the output file
    qt_tree,     \* a quadtree used through the API of quadtree.h
    qt_log,      \* the QTreeInsert calls made on it: [spp, ret]
    qt_visit,    \* the last QTreeMapQueryRange on it: [r, pairs]
    call,        \* the last call of a function of the kernel: [fn, args, ret]
    eb_count     \* the GNAT_add_edge calls made on the edge buffer used alone

main_vars == <<pc, argv, g_raster, g_network, g_qtarray, edgbuf>>
qt_vars == <<qt_tree, qt_log, qt_visit>>
vars == <<pc, argv, g_raster, g_network, g_qtarray, edgbuf,
          qt_tree, qt_log, qt_visit, call, eb_count>>

\* Inputs of the model: the cells, the timestamps of the generated spike
\* files and the longest generated spike and network files.
Ids == {0, 1}
Times == {1, 2, 3, 4}
MaxSpikes == 4
MaxSyn == 1

IsTimeSorted(f) == \A i \in 1 .. Len(f) - 1 : f[i][1] <= f[i + 1][1]

\* The spike files of Scenario A (and C) and of Scenario D, in time order.
FileA == << <<10, 0>>, <<11, 1>>, <<20, 0>>, <<21, 1>> >>
FileD == << <<10, 0>>, <<11, 1>>, <<20, 0>>, <<21, 1>>, <<30, 0>>, <<31, 1>> >>

\* A spike file that names a neuron outside the population
FileOutside == << <<1, 2>> >>

\* A spike file in which neuron 0 fires at 2 and 3 in turn, five times
FileAlternating == << <<2, 0>>, <<3, 0>>, <<2, 0>>, <<3, 0>>, <<2, 0>> >>

SpikeFiles ==
    {f \in UNION {[1 .. k -> Times \X Ids] : k \in 0 .. MaxSpikes} : IsTimeSorted(f)}
      \cup {FileA, FileD, FileOutside, FileAlternating}

Delays == {ToFloat(1)}
\* the synapse lines between the cells, and two that name a neuron outside
\* the population, one as source and one as target
SynLines ==
    (Ids \X Ids \X {ToFloat(1)} \X Delays)
      \cup {<<2, 1, ToFloat(1), ToFloat(1)>>, <<0, 2, ToFloat(1), ToFloat(1)>>}
NetFiles == UNION {[1 .. k -> SynLines] : k \in 0 .. MaxSyn}

Taus == {ToFloat(1)}
Threshs == {ToFloat(1)}
Radii == {ToFloat(1) \div 2, ToFloat(10), ToFloat(100)}

NoVisit == [r |-> NULL, pairs |-> <<>>]
NoCall == [fn |-> "none", args |-> <<>>, ret |-> FALSE]
NoBuffer == [g_edgbuf |-> <<>>, edgbuf_sz |-> 0, fp_edgbuf |-> "null", file |-> <<>>]

Init ==
    /\ pc = "start"
    /\ argv = [n_cells |-> 0, spike_file |-> <<>>, network_file |-> <<>>,
               tau |-> 0, thresh |-> 0, c_radius |-> 0]
    /\ g_raster = RasterInit(0, <<>>)
    /\ g_network = PhysNetworkInit(0, <<>>)
    /\ g_qtarray = <<>>
    /\ edgbuf = NoBuffer
    /\ qt_tree = NULL
    /\ qt_log = <<>>
    /\ qt_visit = NoVisit
    /\ call = NoCall
    /\ eb_count = 0

\* main, lines 347-365: RasterInit, PhysNetworkInit and the malloc of
\* g_qtarray; the contents of the two arrays malloc returns are not set.
MainInit ==
    /\ pc = "start"
    /\ \E n \in {Cardinality(Ids)}, hs \in [Ids -> BOOLEAN], hp \in [Ids -> BOOLEAN] :
          /\ g_raster' = RasterInit(n, hs)
          /\ g_network' = PhysNetworkInit(n, hp)
          /\ g_qtarray' = [i \in 0 .. n - 1 |-> NULL]
          /\ argv' = [argv EXCEPT !.n_cells = n]
    /\ pc' = "read_spikes"
    /\ UNCHANGED <<edgbuf, qt_vars, call, eb_count>>

\* main, line 368
MainReadSpikes ==
    /\ pc = "read_spikes"
    /\ \E f \in SpikeFiles :
          \E r \in {RasterReadFile(g_raster, f)} :
              /\ g_raster' = r.sr
              /\ argv' = [argv EXCEPT !.spike_file = f]
              /\ pc' = IF r.exit THEN "exit"
                       ELSE IF r.crash THEN "crashed" ELSE "read_network"
    /\ UNCHANGED <<g_network, g_qtarray, edgbuf, qt_vars, call, eb_count>>

\* main, line 371
MainReadNetwork ==
    /\ pc = "read_network"
    /\ \E f \in NetFiles :
          \E r \in {PhysNetworkReadFile(g_network, f)} :
              /\ g_network' = r.pn
              /\ argv' = [argv EXCEPT !.network_file = f]
              /\ pc' = IF r.exit THEN "exit" ELSE "build"
    /\ UNCHANGED <<g_raster, g_qtarray, edgbuf, qt_vars, call, eb_count>>

\* main, lines 374-393: Phase 1 and initialize_edge_buffer
MainBuild ==
    /\ pc = "build"
    /\ \E b \in {BuildQuadtrees(g_raster)} :
           /\ \A idx \in DOMAIN b : ~b[idx].over
           /\ g_qtarray' = [idx \in DOMAIN b |-> b[idx].qt]
    /\ edgbuf' = initialize_edge_buffer
    /\ pc' = "compute"
    /\ UNCHANGED <<argv, g_raster, g_network, qt_vars, call, eb_count>>

\* Phase 2 with a walk that unlinks the pairs it visits: every tree is left
\* as QTreeCreate made it.
MainComputeConsuming ==
    /\ pc = "compute"
    /\ \E tau \in Taus, thresh \in Threshs, c_radius \in Radii :
          \E r \in {compute_gnat_edges(g_raster, g_network, g_qtarray, edgbuf,
                                       tau, thresh, c_radius)} :
              /\ edgbuf' = r.eb
              /\ argv' = [argv EXCEPT !.tau = tau, !.thresh = thresh,
                                      !.c_radius = c_radius]
              /\ pc' = IF r.crash THEN "crashed" ELSE "finalize"
    /\ g_qtarray' = [idx \in DOMAIN g_qtarray |-> QTreeCreate(g_qtarray[idx].bdry)]
    /\ UNCHANGED <<g_raster, g_network, qt_vars, call, eb_count>>

\* main, line 396: Phase 2
MainCompute ==
    /\ pc = "compute"
    /\ \E tau \in Taus, thresh \in Threshs, c_radius \in Radii :
          \E r \in {compute_gnat_edges(g_raster, g_network, g_qtarray, edgbuf,
                                       tau, thresh, c_radius)} :
              /\ edgbuf' = r.eb
              /\ argv' = [argv EXCEPT !.tau = tau, !.thresh = thresh,
                                      !.c_radius = c_radius]
              /\ pc' = IF r.crash THEN "crashed" ELSE "finalize"
    /\ UNCHANGED <<g_raster, g_network, g_qtarray, qt_vars, call, eb_count>>

\* main, line 399
MainFinalize ==
    /\ pc = "finalize"
    /\ edgbuf' = finalize_edge_buffer(edgbuf)
    /\ pc' = "done"
    /\ UNCHANGED <<argv, g_raster, g_network, g_qtarray, qt_vars, call, eb_count>>

Next ==
    \/ MainInit
    \/ MainReadSpikes
    \/ MainReadNetwork
    \/ MainBuild
    \/ MainCompute
    \/ MainFinalize

Spec == Init /\ [][Next]_vars

(***************************************************************************)
(* The quadtree through its API: QTreeCreate, then QTreeInsert and         *)
(* QTreeMapQueryRange in any order.                                        *)
(***************************************************************************)
MaxInserts == 5

Point(x, y) == create_spike_pair(create_spike(0, x), create_spike(0, y))

QTPoints == {Point(x, y) : x \in {1, 2, 3}, y \in {1, 3}} \cup {Point(0, 2)}

\* The top-level boxes main builds for t_min = 0 and t_max = 4, t_max = 3.
RootBoxes ==
    {BBoxCreate(ToFloat(2), ToFloat(2), ToFloat(2)),
     BBoxCreate(ToFloat(3) \div 2, ToFloat(3) \div 2, ToFloat(3) \div 2)}

QueryBoxes ==
    {BBoxCreate(ToFloat(5) \div 2, ToFloat(5) \div 2, ToFloat(1)),
     BBoxCreate(ToFloat(1), ToFloat(1), ToFloat(1) \div 2),
     BBoxCreate(ToFloat(4), ToFloat(4), ToFloat(1) \div 2)}

QTCreate ==
    /\ qt_tree = NULL
    /\ \E bbox \in RootBoxes : qt_tree' = QTreeCreate(bbox)
    /\ UNCHANGED <<qt_log, qt_visit, main_vars, call, eb_count>>

QTInsert ==
    /\ qt_tree # NULL
    /\ Len(qt_log) < MaxInserts
    /\ \E spp \in QTPoints :
          \E r \in {QTreeInsert(qt_tree, spp)} :
              /\ ~r.over
              /\ qt_tree' = r.qt
              /\ qt_log' = Append(qt_log, [spp |-> spp, ret |-> r.ret])
    /\ qt_visit' = NoVisit
    /\ UNCHANGED <<main_vars, call, eb_count>>

QTQuery ==
    /\ qt_tree # NULL
    /\ \E r \in QueryBoxes \cup {qt_tree.bdry} :
          qt_visit' = [r |-> r, pairs |-> QTreeMapQueryRange(qt_tree, r)]
    /\ UNCHANGED <<qt_tree, qt_log, main_vars, call, eb_count>>

NextQT == QTCreate \/ QTInsert \/ QTQuery

SpecQT == Init /\ [][NextQT]_vars

(***************************************************************************)
(* The functions of the kernel called on their own: BBoxContainsPoint and  *)
(* GNAT_test_for_edge applied once to arguments drawn from the sets below.  *)
(***************************************************************************)
FnTimes == {0, 1, 2, 3, 1000002}
FnPrePairs ==
    {create_spike_pair(create_spike(0, s), create_spike(0, t)) : s, t \in FnTimes}
FnPostPairs ==
    {create_spike_pair(create_spike(1, s), create_spike(1, t)) : s, t \in FnTimes}
FnSynapses == {SynapseCreate(0, 1, ToFloat(1), d) : d \in {ToFloat(1), ToFloat(2)}}
FnTaus == {ToFloat(1) \div 2, ToFloat(1), ToFloat(2)}
FnThreshs == {ToFloat(0), ToFloat(1), ToFloat(999998)}

\* Boxes with centres and half-widths on the half-integer grid, the values
\* the top-level box of main and QTreeSubdivide produce from integer times.
FnHalves == {(k * FS) \div 2 : k \in 0 .. 6}
FnBoxes == {BBoxCreate(cx, cy, w) : cx, cy \in FnHalves, w \in FnHalves \ {0}}
FnPoints == {Point(x, y) : x, y \in 0 .. 3}

FnGNATTest ==
    /\ call.fn = NoCall.fn
    /\ \E pre \in FnPrePairs, post \in FnPostPairs, edg \in FnSynapses,
          tau \in FnTaus, thresh \in FnThreshs :
          call' = [fn |-> "GNAT_test_for_edge",
                   args |-> <<pre, post, edg, tau, thresh>>,
                   ret |-> GNAT_test_for_edge(pre, post, edg, tau, thresh)]
    /\ UNCHANGED <<main_vars, qt_vars, eb_count>>

FnContains ==
    /\ call.fn = NoCall.fn
    /\ \E bb \in FnBoxes, spp \in FnPoints :
          call' = [fn |-> "BBoxContainsPoint",
                   args |-> <<bb, spp>>,
                   ret |-> BBoxContainsPoint(bb, spp)]
    /\ UNCHANGED <<main_vars, qt_vars, eb_count>>

FnSpikesPre == {create_spike(0, t) : t \in FnTimes}
FnSpikesPost == {create_spike(1, t) : t \in FnTimes}

FnGamma ==
    /\ call.fn = NoCall.fn
    /\ \E sp_pre \in FnSpikesPre, sp_post \in FnSpikesPost, edg \in FnSynapses,
          tau \in FnTaus :
          call' = [fn |-> "compute_gamma",
                   args |-> <<sp_pre, sp_post, edg, tau>>,
                   ret |-> compute_gamma(sp_pre, sp_post, edg, tau)]
    /\ UNCHANGED <<main_vars, qt_vars, eb_count>>

NextFn == FnGNATTest \/ FnContains \/ FnGamma

SpecFn == Init /\ [][NextFn]_vars

(***************************************************************************)
(* What the specification says of the program, stated independently of the *)
(* definitions above: distances and gamma in exact arithmetic.             *)
(***************************************************************************)
Mag(f) == IF f < 0 THEN -f ELSE f

Range(seq) == {seq[k] : k \in DOMAIN seq}

Count(seq, x) == Cardinality({k \in DOMAIN seq : seq[k] = x})

\* |x - c_x| < w2 and |y - c_y| < w2, not truncated
StrictlyInside(bb, spp) ==
    /\ Mag(ToFloat(spp.sp1.ts) - bb.c_x) < bb.w2
    /\ Mag(ToFloat(spp.sp2.ts) - bb.c_y) < bb.w2

\* gamma of the specification: the sentinel when the gap is below the delay
SpecGamma(sp_pre, sp_post, edg, tau) ==
    LET delta_t == ToFloat(sp_post.ts) - ToFloat(sp_pre.ts)
    IN  IF delta_t < edg.delay THEN ToFloat(LARGE_GAMMA)
        ELSE edg.neg_log_rel_w + FDiv(delta_t - edg.delay, tau)

SpecAccepts(spp_pre, spp_post, edg, tau, thresh) ==
    /\ ToFloat(spp_post.sp1.ts) - ToFloat(spp_pre.sp1.ts) >= edg.delay
    /\ SpecGamma(spp_pre.sp1, spp_post.sp1, edg, tau) <= thresh
    /\ ToFloat(spp_post.sp2.ts) - ToFloat(spp_pre.sp2.ts) >= edg.delay
    /\ SpecGamma(spp_pre.sp2, spp_post.sp2, edg, tau) <= thresh

\* The pairs of a neuron: two non-equal spikes, the first earlier in the list
PairsOfList(list) ==
    {create_spike_pair(list[i], list[j]) :
        <<i, j>> \in {ij \in (DOMAIN list) \X (DOMAIN list) :
                         ij[1] < ij[2] /\ list[ij[1]] # list[ij[2]]}}

EdgeLine(spp_pre, spp_post) ==
    ToString(spp_pre.sp1.n_id) \o " " \o ToString(spp_pre.sp1.ts) \o " "
      \o ToString(spp_pre.sp2.ts) \o " " \o ToString(spp_post.sp1.n_id) \o " "
      \o ToString(spp_post.sp1.ts) \o " " \o ToString(spp_post.sp2.ts)

SynapseOfLine(l) == SynapseCreate(l[1], l[2], l[3], l[4])

RunEnded == pc \in {"done", "crashed"}

\* The inputs of Scenario A, with the culling radius as given
ScenarioInputs(file, radius) ==
    /\ argv.n_cells = 2
    /\ argv.spike_file = file
    /\ argv.network_file = << <<0, 1, ToFloat(1), ToFloat(1)>> >>
    /\ argv.tau = ToFloat(1)
    /\ argv.thresh = ToFloat(1)
    /\ argv.c_radius = radius

\* C1: after a full run on a time-sorted spike file, every synapse u->v,
\* post-pair of v and pre-pair of u that lie within c_radius of each other on
\* both axes and pass the gamma test on both alignments have their edge line
\* in the output.
C1_Complete ==
    pc = "done" =>
      \A k \in DOMAIN argv.network_file :
        \A e \in {SynapseOfLine(argv.network_file[k])} :
          (e.src_id < argv.n_cells /\ e.tgt_id < argv.n_cells) =>
          \A spp_post \in PairsOfList(g_raster.sp_lists[e.tgt_id]) :
            \A spp_pre \in PairsOfList(g_raster.sp_lists[e.src_id]) :
              ( /\ Mag(ToFloat(spp_pre.sp1.ts) - ToFloat(spp_post.sp1.ts)) < argv.c_radius
                /\ Mag(ToFloat(spp_pre.sp2.ts) - ToFloat(spp_post.sp2.ts)) < argv.c_radius
                /\ SpecAccepts(spp_pre, spp_post, e, argv.tau, argv.thresh) )
              => EdgeLine(spp_pre, spp_post) \in Range(edgbuf.file)

\* C2: for tau > 0 and thresh < LARGE_GAMMA, GNAT_test_for_edge accepts
\* exactly when on both alignments the gap is at least the delay and
\* neg_log_rel_w + (gap - delay)/tau is at most thresh.
C2_EdgePredicate ==
    ( /\ call.fn = "GNAT_test_for_edge"
      /\ call.args[4] > 0
      /\ call.args[5] < ToFloat(LARGE_GAMMA) )
    => (call.ret <=> SpecAccepts(call.args[1], call.args[2], call.args[3],
                                 call.args[4], call.args[5]))

\* C3: the run of Scenario A (c_radius = 10) emits exactly one edge, the line
\* "0 10 20 1 11 21".
C3_ScenarioA ==
    (RunEnded /\ ScenarioInputs(FileA, ToFloat(10)))
    => edgbuf.file = <<"0 10 20 1 11 21">>

\* C4: the run of Scenario C (the input of Scenario A with c_radius = 0.5)
\* emits no edge.
C4_ScenarioC ==
    (RunEnded /\ ScenarioInputs(FileA, ToFloat(1) \div 2))
    => edgbuf.file = <<>>

C6_IsolatedTarget ==
    pc \in {"compute", "finalize", "done"} =>
      \A v \in 0 .. argv.n_cells - 1 :
        (\A k \in DOMAIN argv.network_file : argv.network_file[k][2] # v)
        => /\ g_network.presyns[v] = <<>>
           /\ ~g_network.wild[v]
           /\ \A u \in 0 .. argv.n_cells - 1 :
                \A spp_post \in PairsOfList(g_raster.sp_lists[v]) :
                  \A spp_pre \in PairsOfList(g_raster.sp_lists[u]) :
                    EdgeLine(spp_pre, spp_post) \notin Range(edgbuf.file)

LogPoints == [k \in DOMAIN qt_log |-> qt_log[k].spp]

LogDistinct == \A i, j \in DOMAIN qt_log : i # j => qt_log[i].spp # qt_log[j].spp

LogInterior == \A k \in DOMAIN qt_log : StrictlyInside(qt_tree.bdry, qt_log[k].spp)

\* C7: after inserting pairwise distinct points, each strictly inside the
\* root box, a query over the full root box visits each inserted pair exactly
\* once and nothing else.
C7_RoundTrip ==
    ( /\ qt_tree # NULL
      /\ qt_visit # NoVisit
      /\ qt_visit.r = qt_tree.bdry
      /\ LogDistinct
      /\ LogInterior )
    => \A spp \in QTPoints : Count(qt_visit.pairs, spp) = Count(LogPoints, spp)

\* The pairs QTreeInsert has accepted
Accepted == {qt_log[k].spp : k \in {i \in DOMAIN qt_log : qt_log[i].ret}}

\* C8: for points inserted strictly inside the root box and any query box R,
\* the visited pairs that lie strictly inside R are exactly the inserted
\* (accepted) pairs that lie strictly inside R.
C8_RangeComplete ==
    ( /\ qt_tree # NULL
      /\ qt_visit # NoVisit
      /\ LogInterior )
    => {spp \in Range(qt_visit.pairs) : StrictlyInside(qt_visit.r, spp)}
         = {spp \in Accepted : StrictlyInside(qt_visit.r, spp)}

\* The number of leaves of qt that store spp
RECURSIVE LeavesWith(_, _)
LeavesWith(qt, spp) ==
    IF qt.NW = NULL THEN (IF spp \in Range(qt.pairs) THEN 1 ELSE 0)
    ELSE LeavesWith(qt.NW, spp) + LeavesWith(qt.SW, spp)
           + LeavesWith(qt.NE, spp) + LeavesWith(qt.SE, spp)

\* C9: QTreeInsert returns TRUE exactly when the point is contained in the
\* boundary of the tree, and a pair it has just accepted (no equal pair
\* having been inserted before) is stored in exactly one leaf.
C9_InsertIffContained ==
    (qt_tree # NULL /\ qt_log # <<>> /\ qt_visit = NoVisit) =>
      \A last \in {qt_log[Len(qt_log)]} :
        /\ last.ret <=> BBoxContainsPoint(qt_tree.bdry, last.spp)
        /\ (last.ret /\ Count(LogPoints, last.spp) = 1)
             => LeavesWith(qt_tree, last.spp) = 1

Fractional(f) == f % FS # 0

\* C10: for integer points and boxes with a fractional centre or
\* half-width, BBoxContainsPoint returns true exactly when both distances,
\* not truncated, are strictly below the half-width.
C10_ContainsExact ==
    ( /\ call.fn = "BBoxContainsPoint"
      /\ \/ Fractional(call.args[1].c_x)
         \/ Fractional(call.args[1].c_y)
         \/ Fractional(call.args[1].w2) )
    => (call.ret <=> StrictlyInside(call.args[1], call.args[2]))

\* C11: for tau > 0, compute_gamma returns exactly LARGE_GAMMA exactly when
\* post.ts - pre.ts < e.delay, and otherwise returns
\* e.neg_log_rel_w + (post.ts - pre.ts - e.delay)/tau.
C11_GammaSentinel ==
    (call.fn = "compute_gamma" /\ call.args[4] > 0) =>
      ( /\ call.ret = SpecGamma(call.args[1], call.args[2], call.args[3], call.args[4])
        /\ ( (call.ret = ToFloat(LARGE_GAMMA)) <=>
               (ToFloat(call.args[2].ts) - ToFloat(call.args[1].ts)
                  < call.args[3].delay) ) )

\* Every node of qt holds at most QT_MAX_CAP pairs
RECURSIVE WithinCapacity(_)
WithinCapacity(qt) ==
    /\ Len(qt.pairs) <= QT_MAX_CAP
    /\ qt.capacity <= QT_MAX_CAP
    /\ (qt.NW # NULL) =>
         /\ WithinCapacity(qt.NW)
         /\ WithinCapacity(qt.SW)
         /\ WithinCapacity(qt.NE)
         /\ WithinCapacity(qt.SE)

\* The largest number of pairs a node of qt holds
RECURSIVE MaxLoad(_)
Max2(a, b) == IF a >= b THEN a ELSE b
MaxLoad(qt) ==
    IF qt.NW = NULL THEN Len(qt.pairs)
    ELSE Max2(Max2(Len(qt.pairs), Max2(MaxLoad(qt.NW), MaxLoad(qt.SW))),
              Max2(MaxLoad(qt.NE), MaxLoad(qt.SE)))

\* C12: after QTreeCreate and any sequence of QTreeInsert calls, every node
\* of the tree holds at most QT_MAX_CAP = 4 pairs.
C12_LeafCapacity == (qt_tree # NULL) => WithinCapacity(qt_tree)

\* a subdivided tree, one of whose leaves is full, after more than
\* QT_MAX_CAP accepted inserts
C12_Witness ==
    /\ qt_tree # NULL
    /\ qt_tree.NW # NULL
    /\ Cardinality({k \in DOMAIN qt_log : qt_log[k].ret}) > QT_MAX_CAP
    /\ MaxLoad(qt_tree) = QT_MAX_CAP

\* The edges handed to GNAT_add_edge and not yet overwritten in g_edgbuf
BufferedEdges == Range(edgbuf.g_edgbuf)

\* Each line written is the print of the edge at its place in g_edgbuf (the
\* runs of main add fewer than N_EDGBUF edges, so finalize_edge_buffer
\* makes the only flush).
LinesAreEdges ==
    /\ Len(edgbuf.file) <= Len(edgbuf.g_edgbuf)
    /\ \A k \in DOMAIN edgbuf.file :
          edgbuf.file[k] = fprint_GNAT_edge(edgbuf.g_edgbuf[k])

HasDuplicateSpike(f) == \E i, j \in DOMAIN f : i # j /\ f[i] = f[j]

\* C13: no emitted edge has a pre-pair or a post-pair whose two spikes are
\* equal under spike_equals, also when the spike file repeats a spike.
C13_PairFilter ==
    /\ LinesAreEdges
    /\ \A edg \in BufferedEdges :
          /\ ~spike_equals(edg.spp_pre.sp1, edg.spp_pre.sp2)
          /\ ~spike_equals(edg.spp_post.sp1, edg.spp_post.sp2)

\* a completed run on a spike file that repeats a spike, with output
C13_Witness ==
    /\ pc = "done"
    /\ HasDuplicateSpike(argv.spike_file)
    /\ edgbuf.file # <<>>

\* C14: every emitted edge, with presynaptic neuron u (the neuron of both
\* spikes of its pre-pair) and postsynaptic neuron v (the neuron of both
\* spikes of its post-pair), has a synapse u -> v in the presynaptic list of v.
C14_Directed ==
    /\ LinesAreEdges
    /\ \A edg \in BufferedEdges :
          /\ edg.spp_pre.sp1.n_id = edg.spp_pre.sp2.n_id
          /\ edg.spp_post.sp1.n_id = edg.spp_post.sp2.n_id
          /\ \E syn \in Range(g_network.presyns[edg.spp_post.sp1.n_id]) :
                /\ syn.src_id = edg.spp_pre.sp1.n_id
                /\ syn.tgt_id = edg.spp_post.sp1.n_id

\* a completed run with output whose network holds 0 -> 1 and not 1 -> 0,
\* both neurons having pairs
C14_Witness ==
    /\ pc = "done"
    /\ edgbuf.file # <<>>
    /\ argv.network_file = << <<0, 1, ToFloat(1), ToFloat(1)>> >>
    /\ \A i \in Ids : PairsOfList(g_raster.sp_lists[i]) # {}

\* An input read so far names a neuron id >= n_cells
OutsideIdRead ==
    \/ \E k \in DOMAIN argv.spike_file : argv.spike_file[k][2] >= argv.n_cells
    \/ \E k \in DOMAIN argv.network_file :
          \/ argv.network_file[k][1] >= argv.n_cells
          \/ argv.network_file[k][2] >= argv.n_cells

\* C16: a spike or a synapse that names a neuron id >= n_cells makes the run
\* abort during ingestion, so the run never goes on to Phase 1 and Phase 2
\* with such an id.
C16_OutOfBoundsFatal ==
    (pc \notin {"start", "read_spikes"} /\ OutsideIdRead) => pc = "exit"

\* The spikes of neuron i in the order of the lines of file f
FileOrder(f, i) ==
    LET own == SelectSeq(f, LAMBDA l : l[2] = i)
    IN  [k \in DOMAIN own |-> create_spike(i, own[k][1])]

NonDecreasing(list) ==
    \A k \in 1 .. Len(list) - 1 : list[k].ts <= list[k + 1].ts

\* C17: for a spike file sorted by non-decreasing timestamp, once
\* RasterReadFile has returned every neuron's spike list is in file order
\* (non-decreasing timestamp), and every emitted edge has a1.ts < a2.ts and
\* b1.ts < b2.ts.
C17_EarlierLater ==
    IsTimeSorted(argv.spike_file) =>
      /\ (pc \in {"read_network", "build", "compute", "finalize", "done"}) =>
            \A i \in 0 .. argv.n_cells - 1 :
               /\ g_raster.sp_lists[i] = FileOrder(argv.spike_file, i)
               /\ NonDecreasing(g_raster.sp_lists[i])
      /\ LinesAreEdges
      /\ \A edg \in BufferedEdges :
            /\ edg.spp_pre.sp1.ts < edg.spp_pre.sp2.ts
            /\ edg.spp_post.sp1.ts < edg.spp_post.sp2.ts

\* a completed run with output in which a neuron has three spikes or more
C17_Witness ==
    /\ pc = "done"
    /\ edgbuf.file # <<>>
    /\ \E i \in Ids : Len(g_raster.sp_lists[i]) >= 3

(***************************************************************************)
(* The edge buffer used alone: initialize_edge_buffer, then GNAT_add_edge  *)
(* any number of times up to MaxAdds, the k-th call adding EdgeNo(k), and  *)
(* finalize_edge_buffer after one of the numbers of calls in FinalizeAfter.*)
(***************************************************************************)
ExtraAdds == 2
MaxAdds == N_EDGBUF + ExtraAdds

FinalizeAfter == {0, 1, 2, N_EDGBUF - 1, N_EDGBUF} \cup (N_EDGBUF + 1 .. MaxAdds)

EdgeNo(k) ==
    [spp_pre |-> create_spike_pair(create_spike(0, k), create_spike(0, k + 1)),
     spp_post |-> create_spike_pair(create_spike(1, k + 1), create_spike(1, k + 2)),
     cd_ratio |-> 1]

eb_others == <<pc, argv, g_raster, g_network, g_qtarray, qt_vars, call>>

EBInitialize ==
    /\ edgbuf.fp_edgbuf = "null"
    /\ edgbuf' = initialize_edge_buffer
    /\ UNCHANGED <<eb_count, eb_others>>

EBAdd ==
    /\ edgbuf.fp_edgbuf = "open"
    /\ eb_count < MaxAdds
    /\ \E edg \in {EdgeNo(eb_count + 1)} :
          edgbuf' = GNAT_add_edge(edgbuf, edg.spp_pre, edg.spp_post, edg.cd_ratio)
    /\ eb_count' = eb_count + 1
    /\ UNCHANGED eb_others

\* The lengths of the runs of consecutive GNAT_add_edge calls taken in one step
RunLens == {N_EDGBUF - 1, N_EDGBUF}

\* n consecutive GNAT_add_edge calls, for the edges k+1 .. k+n (the buffer
\* between the two halves of the run is bound, so it is evaluated once)
RECURSIVE AddRun(_, _, _)
AddRun(eb, k, n) ==
    IF n = 0 THEN eb
    ELSE IF n = 1
    THEN GNAT_add_edge(eb, EdgeNo(k + 1).spp_pre, EdgeNo(k + 1).spp_post,
                       EdgeNo(k + 1).cd_ratio)
    ELSE CHOOSE r \in { AddRun(m, k + (n \div 2), n - (n \div 2)) :
                            m \in {AddRun(eb, k, n \div 2)} } : TRUE

\* The walk of one tree offering a run of edges, one GNAT_add_edge call each
EBAddRun ==
    /\ edgbuf.fp_edgbuf = "open"
    /\ \E n \in RunLens :
          /\ eb_count + n <= MaxAdds
          /\ edgbuf' = AddRun(edgbuf, eb_count, n)
          /\ eb_count' = eb_count + n
    /\ UNCHANGED eb_others

EBFinalize ==
    /\ edgbuf.fp_edgbuf = "open"
    /\ eb_count \in FinalizeAfter
    /\ edgbuf' = finalize_edge_buffer(edgbuf)
    /\ UNCHANGED <<eb_count, eb_others>>

NextEB == EBInitialize \/ EBAdd \/ EBAddRun \/ EBFinalize

SpecEB == Init /\ [][NextEB]_vars

\* C15: after initialize_edge_buffer and any number of GNAT_add_edge calls,
\* the lines already written followed by the edges still buffered are the
\* edges added so far, each once and in the order of the calls; after
\* finalize_edge_buffer nothing is left buffered, so the output holds exactly
\* one line per call, in call order.
C15_ExactlyOnceInOrder ==
    (edgbuf.fp_edgbuf # "null") =>
      /\ Len(edgbuf.file) + edgbuf.edgbuf_sz = eb_count
      /\ \A k \in DOMAIN edgbuf.file :
            edgbuf.file[k] = fprint_GNAT_edge(EdgeNo(k))
      /\ \A j \in 1 .. edgbuf.edgbuf_sz :
            edgbuf.g_edgbuf[j] = EdgeNo(Len(edgbuf.file) + j)
      /\ (edgbuf.fp_edgbuf = "closed") => edgbuf.edgbuf_sz = 0

\* more than N_EDGBUF adds, an intermediate flush made, then finalized
C15_Witness ==
    /\ edgbuf.fp_edgbuf = "closed"
    /\ eb_count > N_EDGBUF
    /\ Len(edgbuf.file) = eb_count

\* The two boxes are disjoint, in exact arithmetic
Disjoint(r, bb) ==
    \/ Mag(r.c_x - bb.c_x) > r.w2 + bb.w2
    \/ Mag(r.c_y - bb.c_y) > r.w2 + bb.w2

\* C18: a range query whose region is disjoint from the root box invokes
\* the visitor zero times, whatever the tree holds (QTreeMapQueryRange;
\* QTreeMapGNATEdge makes the same BBoxIntersects test on entry).
C18_DisjointNoVisit ==
    (qt_tree # NULL /\ qt_visit # NoVisit /\ Disjoint(qt_visit.r, qt_tree.bdry))
    => qt_visit.pairs = <<>>

\* The run of main on the inputs of argv from arrays malloc returned zeroed:
\* the lines it leaves in the output file.
ZeroedHeap == [i \in Ids |-> FALSE]

RunFinalize(r) == IF r.crash THEN <<>> ELSE finalize_edge_buffer(r.eb).file

RunCompute(sr, pn, b) ==
    IF \E idx \in DOMAIN b : b[idx].over THEN <<>>
    ELSE RunFinalize(
           compute_gnat_edges(sr, pn, [idx \in DOMAIN b |-> b[idx].qt],
                              initialize_edge_buffer,
                              argv.tau, argv.thresh, argv.c_radius))

RunNetwork(rs, rn) ==
    IF rs.exit \/ rs.crash \/ rn.exit THEN <<>>
    ELSE RunCompute(rs.sr, rn.pn, BuildQuadtrees(rs.sr))

ZeroedRunOutput ==
    RunNetwork(RasterReadFile(RasterInit(argv.n_cells, ZeroedHeap), argv.spike_file),
               PhysNetworkReadFile(PhysNetworkInit(argv.n_cells, ZeroedHeap),
                                   argv.network_file))

\* C19: the output of a run is a function of the spike file, the network
\* file and (tau, thresh, c_radius) alone: a run that has ended has written
\* the lines that the run on the same inputs writes from zeroed arrays,
\* whatever the arrays of RasterInit and PhysNetworkInit held at first.
C19_Deterministic ==
    (RunEnded /\ argv.tau # 0) => edgbuf.file = ZeroedRunOutput

\* The pairs held anywhere in the tree qt
RECURSIVE HeldPairs(_)
HeldPairs(qt) ==
    IF qt.NW = NULL THEN Range(qt.pairs)
    ELSE Range(qt.pairs) \cup HeldPairs(qt.NW) \cup HeldPairs(qt.SW)
           \cup HeldPairs(qt.NE) \cup HeldPairs(qt.SE)

\* C20: with the top-level box of centre (t_max+t_min)/2 and half-width
\* (t_max-t_min)/2, every pair generated for every neuron (pairs with a spike
\* at the raster-wide t_min or t_max included, t_max - t_min even or odd) is
\* accepted by the box, so that after Phase 1 each neuron's quadtree holds
\* every pair generated for that neuron.
C20_BuildStoresAll ==
    (pc \in {"compute", "finalize", "done"}) =>
      \A idx \in 0 .. argv.n_cells - 1 :
        \A spp \in PairsOfList(g_raster.sp_lists[idx]) :
          spp \in HeldPairs(g_qtarray[idx])

\* Every node of the tree qt
RECURSIVE Nodes(_)
Nodes(qt) ==
    IF qt.NW = NULL THEN {qt}
    ELSE {qt} \cup Nodes(qt.NW) \cup Nodes(qt.SW) \cup Nodes(qt.NE) \cup Nodes(qt.SE)

\* The integer points of the plane the trees of SpecQT cover
GridPoints == {Point(x, y) : x, y \in 0 .. 4}

\* The children of node whose BBoxContainsPoint accepts spp
AcceptingChildren(node, spp) ==
    {c \in {"NW", "SW", "NE", "SE"} : BBoxContainsPoint(node[c].bdry, spp)}

\* C21: for every subdivided node and every integer point inside its box,
\* points on a splitting line included, exactly one of the four child boxes
\* contains the point.
C21_ExactTiling ==
    (qt_tree # NULL) =>
      \A node \in Nodes(qt_tree) :
        (node.NW # NULL) =>
          \A spp \in GridPoints :
            StrictlyInside(node.bdry, spp) =>
              Cardinality(AcceptingChildren(node, spp)) = 1

\* The number of copies of spp on the pair lists of the tree qt
RECURSIVE StoredCopies(_, _)
StoredCopies(qt, spp) ==
    IF qt.NW = NULL THEN Count(qt.pairs, spp)
    ELSE Count(qt.pairs, spp)
           + StoredCopies(qt.NW, spp) + StoredCopies(qt.SW, spp)
           + StoredCopies(qt.NE, spp) + StoredCopies(qt.SE, spp)

\* The number of QTreeInsert calls that returned TRUE for spp
AcceptedCopies(spp) ==
    Cardinality({k \in DOMAIN qt_log : qt_log[k].ret /\ qt_log[k].spp = spp})

\* C22: QTreeSubdivide keeps the multiset of pairs of the leaf it splits, so
\* a pair for which QTreeInsert once returned TRUE is still stored in the
\* tree after any number of later QTreeInsert calls: the tree holds as many
\* copies of each pair as inserts of it were accepted.
C22_SubdividePreserves ==
    (qt_tree # NULL) =>
      \A spp \in QTPoints : StoredCopies(qt_tree, spp) = AcceptedCopies(spp)

\* A leaf has no child, an internal node has four, no pair and capacity 0
NodeShape(node) ==
    /\ \/ node.NW = NULL /\ node.SW = NULL /\ node.NE = NULL /\ node.SE = NULL
       \/ /\ node.NW # NULL /\ node.SW # NULL /\ node.NE # NULL /\ node.SE # NULL
          /\ node.capacity = 0
          /\ node.pairs = <<>>
    /\ node.capacity = Len(node.pairs)
    /\ \A k \in DOMAIN node.pairs : BBoxContainsPoint(node.bdry, node.pairs[k])

\* C23: in every state reached by QTreeCreate and QTreeInsert each node is a
\* leaf (no child) or an internal node (four children, capacity 0 and no
\* pair), its capacity is the length of its pair list, and every stored pair
\* is in a leaf whose boundary accepts it.
C23_NodeShape ==
    (qt_tree # NULL) => \A node \in Nodes(qt_tree) : NodeShape(node)

\* a subdivided tree whose leaves hold pairs, after an insert that made the
\* root subdivide
C23_Witness ==
    /\ qt_tree # NULL
    /\ qt_tree.NW # NULL
    /\ Len(qt_log) > QT_MAX_CAP
    /\ \E node \in Nodes(qt_tree) : node.NW = NULL /\ Len(node.pairs) >= 2

\* The largest number of pairs of the list that are the same point
MostCoincident(list_head) ==
    LET spps == SpikePairsOf(list_head)
    IN  IF spps = <<>> THEN 0
        ELSE CHOOSE n \in 1 .. Len(spps) :
               /\ \E k \in DOMAIN spps : Count(spps, spps[k]) = n
               /\ \A k \in DOMAIN spps : Count(spps, spps[k]) <= n

C25_RejectedUnchanged ==
    [][ ( /\ qt_tree # NULL
          /\ Len(qt_log') = Len(qt_log) + 1
          /\ ~StrictlyInside(qt_tree.bdry, qt_log'[Len(qt_log')].spp) )
        => ( /\ ~qt_log'[Len(qt_log')].ret
             /\ qt_tree' = qt_tree
             /\ QTreeMapQueryRange(qt_tree', qt_tree'.bdry)
                  = QTreeMapQueryRange(qt_tree, qt_tree.bdry) ) ]_vars

\* C26: edgbuf_sz stays within 0 .. N_EDGBUF and no slot of g_edgbuf beyond
\* N_EDGBUF is written; GNAT_add_edge flushes before appending exactly when
\* the buffer already holds N_EDGBUF edges, so that while the file is open
\* the lines written are the full buffers that preceded the last edge added;
\* and flush_edge_buffer leaves edgbuf_sz = 0.
C26_BufferBound ==
    /\ 0 <= edgbuf.edgbuf_sz
    /\ edgbuf.edgbuf_sz <= N_EDGBUF
    /\ Len(edgbuf.g_edgbuf) <= N_EDGBUF
    /\ (edgbuf.fp_edgbuf = "open" /\ eb_count > 0) =>
          /\ Len(edgbuf.file) = N_EDGBUF * ((eb_count - 1) \div N_EDGBUF)
          /\ edgbuf.edgbuf_sz = eb_count - Len(edgbuf.file)
    /\ (edgbuf.fp_edgbuf = "closed") =>
          (edgbuf.edgbuf_sz = 0 /\ Len(edgbuf.file) = eb_count)

\* the buffer held N_EDGBUF edges, and the add after that flushed them and
\* left its own edge buffered
C26_Witness ==
    /\ edgbuf.fp_edgbuf = "open"
    /\ eb_count = N_EDGBUF + 1
    /\ Len(edgbuf.file) = N_EDGBUF
    /\ edgbuf.edgbuf_sz = 1

\* C27: Phase 2 (compute_gnat_edges and the QTreeMapGNATEdge walks it makes)
\* leaves every quadtree, the raster and the network as they were; it
\* changes the edge buffer and its output file only.
C27_PhaseTwoReadOnly ==
    [][ (pc = "compute") =>
          /\ g_qtarray' = g_qtarray
          /\ g_raster' = g_raster
          /\ g_network' = g_network ]_vars

\* Phase 2 has run over trees that hold pairs and has added edges
C27_Witness ==
    /\ pc = "finalize"
    /\ edgbuf.edgbuf_sz > 0
    /\ \E idx \in DOMAIN g_qtarray : g_qtarray[idx].capacity > 0
    /\ g_qtarray = [idx \in DOMAIN g_qtarray |-> BuildQuadtrees(g_raster)[idx].qt]

(***************************************************************************)
(* The raster on its own: RasterInit, then RasterHeadAppend calls in any   *)
(* order of timestamps.  argv.spike_file holds the <<timestamp, neuron id>> *)
(* of the appends made so far.                                             *)
(***************************************************************************)
MaxAppends == 4
RSTimes == {-2, -1, 0, 1, 2}
\* the cells, and one neuron id outside the population
RSIds == Ids \cup {Cardinality(Ids)}

rs_others == <<g_network, g_qtarray, edgbuf, qt_vars, call, eb_count>>

RSInit ==
    /\ pc = "start"
    /\ \E n \in {Cardinality(Ids)}, hs \in [Ids -> BOOLEAN] :
          /\ g_raster' = RasterInit(n, hs)
          /\ argv' = [argv EXCEPT !.n_cells = n]
    /\ pc' = "read_spikes"
    /\ UNCHANGED rs_others

RSAppend ==
    /\ pc = "read_spikes"
    /\ Len(argv.spike_file) < MaxAppends
    /\ \E ts \in RSTimes, id \in RSIds :
          \E r \in {RasterHeadAppend(g_raster, create_spike(id, ts))} :
              /\ g_raster' = r.sr
              /\ argv' = [argv EXCEPT !.spike_file =
                            IF r.exit THEN @ ELSE Append(@, <<ts, id>>)]
              /\ pc' = IF r.exit THEN "exit" ELSE "read_spikes"
    /\ UNCHANGED rs_others

NextRS == RSInit \/ RSAppend

SpecRS == Init /\ [][NextRS]_vars

\* The timestamps appended so far
AppendedTimes == {argv.spike_file[k][1] : k \in DOMAIN argv.spike_file}

\* C28: after RasterInit and at least one successful RasterHeadAppend, in
\* any order of timestamps (negative and zero ones included), t_min is the
\* least and t_max the greatest timestamp appended, n_spikes is the number
\* of appends, and every stored spike has t_min <= ts <= t_max.
C28_RasterAggregates ==
    (pc = "read_spikes" /\ argv.spike_file # <<>>) =>
      /\ g_raster.t_min \in AppendedTimes
      /\ \A t \in AppendedTimes : g_raster.t_min <= t
      /\ g_raster.t_max \in AppendedTimes
      /\ \A t \in AppendedTimes : t <= g_raster.t_max
      /\ g_raster.n_spikes = Len(argv.spike_file)
      /\ \A idx \in 0 .. g_raster.n_cells - 1 :
           \A k \in DOMAIN g_raster.sp_lists[idx] :
             /\ g_raster.t_min <= g_raster.sp_lists[idx][k].ts
             /\ g_raster.sp_lists[idx][k].ts <= g_raster.t_max

\* three appends out of time order whose least timestamp is negative and
\* came last, the first one being neither the least nor the greatest
C28_Witness ==
    /\ pc = "read_spikes"
    /\ Len(argv.spike_file) = 3
    /\ argv.spike_file[1][1] = 0
    /\ argv.spike_file[2][1] = 2
    /\ argv.spike_file[3][1] = -2
    /\ g_raster.t_min = -2
    /\ g_raster.t_max = 2

\* The post pairs, the synapse, tau and thresh the two walks are compared
\* on: with delay 1, tau 1 and thresh 3 a pre pair passes when both gaps are
\* in 1 .. 4, so the first post pair fails the points with x = 3 and the
\* second passes every point of QTPoints.
WalkPosts29 == {create_spike_pair(create_spike(1, 3), create_spike(1, 4)),
                create_spike_pair(create_spike(1, 4), create_spike(1, 5))}
WalkSyn29 == SynapseCreate(0, 1, ToFloat(1), ToFloat(1))
WalkTau29 == ToFloat(1)
WalkThresh29 == ToFloat(3)

\* The pairs of a visit that pass GNAT_test_for_edge, in visit order
PassingVisited(spp_post) ==
    SelectSeq(qt_visit.pairs,
              LAMBDA spp_pre : GNAT_test_for_edge(spp_pre, spp_post, WalkSyn29,
                                                  WalkTau29, WalkThresh29))

\* C29: on the same tree and box, the pre-pairs QTreeMapGNATEdge hands to
\* GNAT_add_edge are, in order, the pairs QTreeMapQueryRange hands to its
\* visitor that pass GNAT_test_for_edge for the post pair and the synapse.
C29_TraversalEquivalence ==
    (qt_tree # NULL /\ qt_visit # NoVisit) =>
      \A spp_post \in WalkPosts29 :
        QTreeMapGNATEdge(qt_tree, qt_visit.r, spp_post, WalkSyn29,
                         WalkTau29, WalkThresh29)
          = PassingVisited(spp_post)

\* a query of a subdivided tree that visited pairs of more than one leaf,
\* some of which pass the test and some of which fail it
C29_Witness ==
    /\ qt_tree # NULL
    /\ qt_visit # NoVisit
    /\ qt_tree.NW # NULL
    /\ \E spp_post \in WalkPosts29 :
         /\ Cardinality(Range(PassingVisited(spp_post))) >= 2
         /\ Len(PassingVisited(spp_post)) < Len(qt_visit.pairs)

====
